---- MODULE Spec2Model ----
(***************************************************************************)
(* Model of OcrCsvExtractor (src/main3.py): the row grouper (group_rows)   *)
(* and the CSV assembler with its section merge pass (rows_to_csv).        *)
(*                                                                         *)
(* Strings are sequences of one-character strings; the characters that     *)
(* are not ASCII are the tokens "nbsp" (U+00A0), "emdash" (U+2014) and     *)
(* "endash" (U+2013).  Floats are exact rationals <<n, d>> with d > 0 in   *)
(* lowest terms; the inputs are small integers, on which the float         *)
(* arithmetic of the code (a halving, a product by 0.6) is exact.          *)
(***************************************************************************)
EXTENDS Integers, Sequences, FiniteSets

VARIABLES pc, items, y_tol, last_y, current, rows, gi,
          grouped, csv_rows, rule, ci, merged, skip_next, mi,
          text_in, norm_once, norm_twice,
          image_ok, results, ocr_calls, error, out_rows, stdout, wi,
          wk

vars == <<pc, items, y_tol, last_y, current, rows, gi,
          grouped, csv_rows, rule, ci, merged, skip_next, mi,
          text_in, norm_once, norm_twice,
          image_ok, results, ocr_calls, error, out_rows, stdout, wi,
          wk>>

groupVars == <<items, y_tol, last_y, current, rows, gi>>
csvVars == <<grouped, csv_rows, rule, ci, merged, skip_next, mi>>
normVars == <<text_in, norm_once, norm_twice>>
pipeVars == <<image_ok, results, ocr_calls, error, out_rows, stdout, wi>>
wkVars == <<wk>>

(* The values of the variables a specification does not use.               *)
NormIdle == text_in = <<>> /\ norm_once = <<>> /\ norm_twice = <<>>

PipeIdle ==
    /\ image_ok = TRUE
    /\ results = <<>>
    /\ ocr_calls = 0
    /\ error = "none"
    /\ out_rows = <<>>
    /\ stdout = <<>>
    /\ wi = 0

WorkersIdle == wk = <<>>

(***************************************************************************)
(* Bounds of the model.                                                    *)
(***************************************************************************)
MaxLen == 3
MaxItems == 4
MaxKVRows == 2
MaxStr == 5
MaxOcr == 3
MaxWorkerOcr == 2
MaxSectionRows == 4

(***************************************************************************)
(* Rational arithmetic standing for the float arithmetic of group_rows.    *)
(***************************************************************************)
RECURSIVE GCD(_, _)
GCD(a, b) == IF b = 0 THEN a ELSE GCD(b, a % b)

Abs(n) == IF n < 0 THEN -n ELSE n

Rat(n, d) ==
    LET g == GCD(Abs(n), d) IN <<n \div g, d \div g>>

RLeq(a, b) == a[1] * b[2] <= b[1] * a[2]

RMax(a, b) == IF RLeq(a, b) THEN b ELSE a

RAbsDiff(a, b) == Rat(Abs(a[1] * b[2] - b[1] * a[2]), a[2] * b[2])

RAvg(a, b) == Rat(a[1] * b[2] + b[1] * a[2], 2 * a[2] * b[2])

None == <<>>

(***************************************************************************)
(* sorted(seq, key): Python's sort is stable, so an element is inserted    *)
(* after every element whose key is not greater.                           *)
(***************************************************************************)
RECURSIVE InsertInt(_, _)
InsertInt(s, x) ==
    IF s = <<>> THEN <<x>>
    ELSE IF x < Head(s) THEN <<x>> \o s
    ELSE <<Head(s)>> \o InsertInt(Tail(s), x)

RECURSIVE SortInts(_)
SortInts(s) ==
    IF s = <<>> THEN <<>>
    ELSE InsertInt(SortInts(SubSeq(s, 1, Len(s) - 1)), s[Len(s)])

RECURSIVE InsertByXMin(_, _)
InsertByXMin(s, it) ==
    IF s = <<>> THEN <<it>>
    ELSE IF it.x_min < Head(s).x_min THEN <<it>> \o s
    ELSE <<Head(s)>> \o InsertByXMin(Tail(s), it)

RECURSIVE SortByXMinStable(_)
SortByXMinStable(s) ==
    IF s = <<>> THEN <<>>
    ELSE InsertByXMin(SortByXMinStable(SubSeq(s, 1, Len(s) - 1)), s[Len(s)])

SortByXMinNoSort(s) == s

SortByXMin(s) == SortByXMinStable(s)

(***************************************************************************)
(* group_rows, lines 94-97: the tolerance.                                 *)
(***************************************************************************)
Heights(its) == [i \in 1..Len(its) |-> its[i].height]

MedianH(its) == SortInts(Heights(its))[(Len(its) \div 2) + 1]

YTol(its) == RMax(<<6, 1>>, Rat(MedianH(its) * 6, 10))

(***************************************************************************)
(* group_rows, lines 105-111: the join test, the anchor update and the     *)
(* closing of a row.                                                       *)
(***************************************************************************)
JoinsStrict(cy, anchor, tol) ==
    /\ RAbsDiff(<<cy, 1>>, anchor) # tol
    /\ RLeq(RAbsDiff(<<cy, 1>>, anchor), tol)

Joins(cy, anchor, tol) == RLeq(RAbsDiff(<<cy, 1>>, anchor), tol)

SmoothedReset(anchor, cy) == <<cy, 1>>

SmoothedNotHalved(anchor, cy) == Rat(anchor[1] + cy * anchor[2], anchor[2])

Smoothed(anchor, cy) == RAvg(anchor, <<cy, 1>>)

CloseRowDropped(rs, cur) == rs

CloseRow(rs, cur) == Append(rs, SortByXMin(cur))

(***************************************************************************)
(* The inputs of group_rows: every sequence of at most MaxLen detections.  *)
(***************************************************************************)
CYs == {0, 6, 9, 10}
XMins == {0, 5}
HeightVals == {10, 20}
GroupTexts == {<<"a">>}

Detections ==
    [text : GroupTexts, center_y : CYs, x_min : XMins, height : HeightVals]

RECURSIVE SeqsUpTo(_, _)
SeqsUpTo(S, n) ==
    IF n = 0 THEN {<<>>}
    ELSE LET shorter == SeqsUpTo(S, n - 1)
         IN shorter \cup {Append(s, x) : s \in {t \in shorter : Len(t) = n - 1}, x \in S}

InitGroup ==
    /\ pc = "g_start"
    /\ items \in SeqsUpTo(Detections, MaxLen)
    /\ y_tol = None
    /\ last_y = None
    /\ current = <<>>
    /\ rows = <<>>
    /\ gi = 0
    /\ grouped = <<>>
    /\ csv_rows = <<>>
    /\ rule = <<>>
    /\ ci = 0
    /\ merged = <<>>
    /\ skip_next = FALSE
    /\ mi = 0
    /\ NormIdle
    /\ PipeIdle
    /\ WorkersIdle

(* lines 90-99: the empty input returns at once; otherwise the tolerance  *)
(* is computed and the scan starts with no anchor.                         *)
GroupStart ==
    /\ pc = "g_start"
    /\ IF items = <<>>
       THEN /\ pc' = "g_done"
            /\ UNCHANGED <<y_tol, gi>>
       ELSE /\ pc' = "g_loop"
            /\ y_tol' = YTol(items)
            /\ gi' = 1
    /\ rows' = <<>>
    /\ current' = <<>>
    /\ last_y' = None
    /\ UNCHANGED <<items>>
    /\ UNCHANGED <<csvVars, normVars, pipeVars, wkVars>>

(* lines 100-111: one iteration of the scan.                               *)
GroupScan ==
    /\ pc = "g_loop"
    /\ gi <= Len(items)
    /\ LET it == items[gi] IN
         IF last_y = None
         THEN /\ current' = <<it>>
              /\ last_y' = <<it.center_y, 1>>
              /\ rows' = rows
         ELSE IF Joins(it.center_y, last_y, y_tol)
         THEN /\ current' = Append(current, it)
              /\ last_y' = Smoothed(last_y, it.center_y)
              /\ rows' = rows
         ELSE /\ rows' = CloseRow(rows, current)
              /\ current' = <<it>>
              /\ last_y' = <<it.center_y, 1>>
    /\ gi' = gi + 1
    /\ UNCHANGED <<pc, items, y_tol>>
    /\ UNCHANGED <<csvVars, normVars, pipeVars, wkVars>>

(* lines 112-114: the open row is closed and the rows are returned.        *)
GroupFinish ==
    /\ pc = "g_loop"
    /\ gi > Len(items)
    /\ rows' = IF current # <<>> THEN CloseRow(rows, current) ELSE rows
    /\ pc' = "g_done"
    /\ UNCHANGED <<items, y_tol, last_y, current, gi>>
    /\ UNCHANGED <<csvVars, normVars, pipeVars, wkVars>>

NextGroup == GroupStart \/ GroupScan \/ GroupFinish

SpecGroup == InitGroup /\ [][NextGroup]_vars

(***************************************************************************)
(* Strings.  WhiteSpace is what str.strip() and str.split() take for white *)
(* space, among the characters of the model.                               *)
(***************************************************************************)
WhiteSpace == {" ", "tab", "nbsp"}

Replace(t, from, to) == [i \in 1..Len(t) |-> IF t[i] = from THEN to ELSE t[i]]

RECURSIVE LStrip(_)
LStrip(t) ==
    IF t # <<>> /\ Head(t) \in WhiteSpace THEN LStrip(Tail(t)) ELSE t

RECURSIVE RStrip(_)
RStrip(t) ==
    IF t # <<>> /\ t[Len(t)] \in WhiteSpace
    THEN RStrip(SubSeq(t, 1, Len(t) - 1))
    ELSE t

Strip(t) == LStrip(RStrip(t))

(* str.split(): the maximal runs of characters that are not white space.   *)
RECURSIVE SplitWSFrom(_, _, _)
SplitWSFrom(t, part, parts) ==
    IF t = <<>>
    THEN IF part = <<>> THEN parts ELSE Append(parts, part)
    ELSE IF Head(t) \in WhiteSpace
    THEN SplitWSFrom(Tail(t), <<>>, IF part = <<>> THEN parts ELSE Append(parts, part))
    ELSE SplitWSFrom(Tail(t), Append(part, Head(t)), parts)

SplitWS(t) == SplitWSFrom(t, <<>>, <<>>)

(* sep.join(parts)                                                         *)
RECURSIVE Join(_, _)
Join(sep, parts) ==
    IF parts = <<>> THEN <<>>
    ELSE IF Len(parts) = 1 THEN parts[1]
    ELSE parts[1] \o sep \o Join(sep, Tail(parts))

(* t.replace("  ", " "): one pass from the left, without overlap           *)
RECURSIVE CollapsePairs(_)
CollapsePairs(t) ==
    IF Len(t) < 2 THEN t
    ELSE IF t[1] = " " /\ t[2] = " "
    THEN <<" ">> \o CollapsePairs(SubSeq(t, 3, Len(t)))
    ELSE <<t[1]>> \o CollapsePairs(Tail(t))

NormalizeCellStripOnly(text) == Strip(Replace(text, "nbsp", " "))

NormalizeCellCollapseOnce(text) ==
    CollapsePairs(Strip(Replace(Replace(text, "nbsp", " "), "tab", " ")))

(* lines 117-122                                                           *)
NormalizeCell(text) ==
    Join(<<" ">>, SplitWS(Strip(Replace(text, "nbsp", " "))))

(* The index of the first occurrence of sep in t at or after i, 0 if none. *)
RECURSIVE FindFrom(_, _, _)
FindFrom(sep, t, i) ==
    IF i + Len(sep) - 1 > Len(t) THEN 0
    ELSE IF SubSeq(t, i, i + Len(sep) - 1) = sep THEN i
    ELSE FindFrom(sep, t, i + 1)

Contains(sep, t) == FindFrom(sep, t, 1) # 0

(* text.split(sep, 1), for a text that contains sep                        *)
SplitOnce(t, sep) ==
    LET i == FindFrom(sep, t, 1)
    IN <<SubSeq(t, 1, i - 1), SubSeq(t, i + Len(sep), Len(t))>>

EndsWithColon(t) == t # <<>> /\ t[Len(t)] = ":"

(* t.rstrip(':')                                                           *)
RECURSIVE RStripColon(_)
RStripColon(t) ==
    IF EndsWithColon(t) THEN RStripColon(SubSeq(t, 1, Len(t) - 1)) ELSE t

Separators == << <<" ", "-", " ">>, <<" ", "emdash", " ">>, <<"endash">> >>

(* lines 124-135                                                           *)
RECURSIVE SplitOnSeparators(_, _)
SplitOnSeparators(text, k) ==
    IF k > Len(Separators) THEN <<Strip(text), <<>>>>
    ELSE IF Contains(Separators[k], text)
    THEN LET kv == SplitOnce(text, Separators[k])
         IN <<Strip(kv[1]), Strip(kv[2])>>
    ELSE SplitOnSeparators(text, k + 1)

SplitKeyValue(text) ==
    IF Contains(<<":">>, text)
    THEN LET kv == SplitOnce(text, <<":">>)
         IN <<Strip(kv[1]), Strip(kv[2])>>
    ELSE SplitOnSeparators(text, 1)

(***************************************************************************)
(* rows_to_csv, lines 141-166: the classification of one row.  The result  *)
(* is the CSV row and the number of the branch that produced it.           *)
(***************************************************************************)
RECURSIVE SumLen(_)
SumLen(texts) ==
    IF texts = <<>> THEN 0 ELSE Len(Head(texts)) + SumLen(Tail(texts))

MaxOf(a, b) == IF a >= b THEN a ELSE b

TableLen == 12

(* line 145-146: avg_len = sum / max(len, 1), compared without dividing    *)
IsTableRowStrict(texts) ==
    Len(texts) >= 3 /\ SumLen(texts) < TableLen * MaxOf(Len(texts), 1)

IsTableRow(texts) ==
    Len(texts) >= 3 /\ SumLen(texts) <= TableLen * MaxOf(Len(texts), 1)

(* line 153                                                                *)
IsKeyValueNoKeyTest(key, val) == val # <<>> \/ EndsWithColon(key)

IsKeyValueKeyOnly(key, val) == key # <<>>

IsKeyValue(key, val) == key # <<>> /\ (val # <<>> \/ EndsWithColon(key))

(* lines 151-157                                                           *)
SingleCellRow(texts) ==
    LET kv == SplitKeyValue(texts[1])
    IN IF IsKeyValue(kv[1], kv[2])
       THEN <<RStripColon(kv[1]), kv[2]>>
       ELSE <<texts[1]>>

(* line 162                                                                *)
KeyPrefixedRowOneColon(texts) ==
    <<SubSeq(texts[1], 1, Len(texts[1]) - 1), Join(<<" ">>, Tail(texts))>>

KeyPrefixedRow(texts) ==
    <<RStripColon(texts[1]), Join(<<" ">>, Tail(texts))>>

ClassifyRowColonFirst(texts) ==
    IF Len(texts) >= 2 /\ EndsWithColon(texts[1])
    THEN [row |-> KeyPrefixedRow(texts), rule |-> 3]
    ELSE IF IsTableRow(texts)
    THEN [row |-> texts, rule |-> 1]
    ELSE IF Len(texts) = 1
    THEN [row |-> SingleCellRow(texts), rule |-> 2]
    ELSE [row |-> texts, rule |-> 4]

ClassifyRow(texts) ==
    IF IsTableRow(texts)
    THEN [row |-> texts, rule |-> 1]
    ELSE IF Len(texts) = 1
    THEN [row |-> SingleCellRow(texts), rule |-> 2]
    ELSE IF EndsWithColon(texts[1]) /\ Len(texts) >= 2
    THEN [row |-> KeyPrefixedRow(texts), rule |-> 3]
    ELSE [row |-> texts, rule |-> 4]

(* line 142                                                                *)
Texts(row_items) ==
    [j \in 1..Len(row_items) |-> NormalizeCell(row_items[j].text)]

(***************************************************************************)
(* rows_to_csv, lines 168-180: the section merge.                          *)
(***************************************************************************)
SectionPrefix == <<"[", "S", "e", "c", "t", "i", "o", "n", "]", " ">>

(* line 175, for the row at index i (from 1) of csv_rows                   *)
ShouldMergeTwoCells(cs, i) ==
    Len(cs[i]) = 1 /\ i + 1 <= Len(cs) /\ Len(cs[i + 1]) >= 2

ShouldMerge(cs, i) ==
    Len(cs[i]) = 1 /\ i + 1 <= Len(cs) /\ Len(cs[i + 1]) >= 3

(* line 177                                                                *)
MergedRow(cs, i) == <<SectionPrefix \o cs[i][1]>> \o cs[i + 1]

(* line 178                                                                *)
SkipAfterMergeNone(cs, i) == FALSE

SkipAfterMerge(cs, i) == TRUE

(***************************************************************************)
(* The inputs of rows_to_csv: rows of detections of which only the text    *)
(* is read.  Every row has a cell, as every row of group_rows has.         *)
(***************************************************************************)
Det(t) == [text |-> t, center_y |-> 0, x_min |-> 0, height |-> 10]

TQty == <<"Q", "t", "y", ":">>
TRef == <<"R", "e", "f", ":", ":">>
TTitle == <<"T", "i", "t", "l", "e">>
TAcme == <<"A", "c", "m", "e", "nbsp", " ", "C", "o", "r", "p", "o", "r",
           "a", "t", "i", "o", "n">>

TItem == <<"W", "i", "d", "g", "e", "t", " ", "-", " ", "1", "2", ".", "5",
           " ", "m", "m">>

MultiTexts == {TQty, TRef, TTitle, TAcme, TItem}

KVTexts ==
    { <<"D", ":", " ", "1">>,
      <<":", "a">>,
      <<"k", ":">>,
      <<"a", ":", "b", ":", "c">>,
      <<"a", " ", "-", " ", "b">>,
      <<"a", " ", "emdash", " ", "b">>,
      <<"a", "endash", "b">>,
      <<"endash", "b">>,
      <<"a", "endash">>,
      <<"a", "endash", "b", " ", "-", " ", "c">>,
      <<"a", " ", "-", " ", "b", ":", "c">>,
      <<"a", "-", "b">>,
      TTitle }

(* The sequences of n cells over S                                         *)
RECURSIVE CellSeqs(_, _)
CellSeqs(S, n) ==
    IF n = 0 THEN {<<>>}
    ELSE {<<Det(t)>> \o r : t \in S, r \in CellSeqs(S, n - 1)}

(* The sequences of rows with at most n cells in all                       *)
RECURSIVE RowSeqs(_, _)
RowSeqs(S, n) ==
    {<<>>} \cup
    UNION {{<<r>> \o rest : r \in CellSeqs(S, k), rest \in RowSeqs(S, n - k)} :
              k \in 1..n}

KVRows == {<<Det(t)>> : t \in KVTexts}

(* Rows of a label and its value                                           *)
LabelRows ==
    { <<Det(TQty), Det(<<"5">>)>>,
      <<Det(<<"Q", "t", "y", " ", ":">>), Det(<<"5">>)>> }

(* Rows of a title, of a short table line and of two long cells            *)
SectionRows ==
    { <<Det(TTitle)>>,
      <<Det(<<"1">>), Det(<<"2">>), Det(<<"3">>)>>,
      <<Det(TAcme), Det(TItem)>> }

InitCsv ==
    /\ pc = "c_classify"
    /\ grouped \in RowSeqs(MultiTexts, MaxItems)
                     \cup SeqsUpTo(KVRows \cup LabelRows, MaxKVRows)
                     \cup SeqsUpTo(SectionRows, MaxSectionRows)
    /\ csv_rows = <<>>
    /\ rule = <<>>
    /\ ci = 1
    /\ merged = <<>>
    /\ skip_next = FALSE
    /\ mi = 0
    /\ items = <<>>
    /\ y_tol = None
    /\ last_y = None
    /\ current = <<>>
    /\ rows = <<>>
    /\ gi = 0
    /\ NormIdle
    /\ PipeIdle
    /\ WorkersIdle

(* lines 141-166: one iteration of the classification loop                 *)
CsvClassify ==
    /\ pc = "c_classify"
    /\ ci <= Len(grouped)
    /\ LET c == ClassifyRow(Texts(grouped[ci]))
       IN /\ csv_rows' = Append(csv_rows, c.row)
          /\ rule' = Append(rule, c.rule)
    /\ ci' = ci + 1
    /\ UNCHANGED <<pc, grouped, merged, skip_next, mi>>
    /\ UNCHANGED <<groupVars, normVars, pipeVars, wkVars>>

(* lines 168-170: the classification loop ends, the merge pass starts      *)
CsvMergeStart ==
    /\ pc = "c_classify"
    /\ ci > Len(grouped)
    /\ merged' = <<>>
    /\ skip_next' = FALSE
    /\ mi' = 1
    /\ pc' = "c_merge"
    /\ UNCHANGED <<grouped, csv_rows, rule, ci>>
    /\ UNCHANGED <<groupVars, normVars, pipeVars, wkVars>>

(* lines 171-180: one iteration of the merge loop                          *)
CsvMerge ==
    /\ pc = "c_merge"
    /\ mi <= Len(csv_rows)
    /\ IF skip_next
       THEN /\ skip_next' = FALSE
            /\ merged' = merged
       ELSE IF ShouldMerge(csv_rows, mi)
       THEN /\ merged' = Append(merged, MergedRow(csv_rows, mi))
            /\ skip_next' = SkipAfterMerge(csv_rows, mi)
       ELSE /\ merged' = Append(merged, csv_rows[mi])
            /\ skip_next' = skip_next
    /\ mi' = mi + 1
    /\ UNCHANGED <<pc, grouped, csv_rows, rule, ci>>
    /\ UNCHANGED <<groupVars, normVars, pipeVars, wkVars>>

(* line 181                                                                *)
CsvReturn ==
    /\ pc = "c_merge"
    /\ mi > Len(csv_rows)
    /\ pc' = "c_done"
    /\ UNCHANGED <<grouped, csv_rows, rule, ci, merged, skip_next, mi>>
    /\ UNCHANGED <<groupVars, normVars, pipeVars, wkVars>>

NextCsv == CsvClassify \/ CsvMergeStart \/ CsvMerge \/ CsvReturn

SpecCsv == InitCsv /\ [][NextCsv]_vars

(***************************************************************************)
(* Properties of group_rows.                                               *)
(***************************************************************************)
RECURSIVE Flatten(_)
Flatten(rs) == IF rs = <<>> THEN <<>> ELSE Head(rs) \o Flatten(Tail(rs))

Count(x, s) == Cardinality({i \in 1..Len(s) : s[i] = x})

RECURSIVE SumCY(_)
SumCY(r) == IF r = <<>> THEN 0 ELSE Head(r).center_y + SumCY(Tail(r))

IsReadingOrder(its) ==
    \A i \in 1..(Len(its) - 1) :
        \/ its[i].center_y < its[i + 1].center_y
        \/ /\ its[i].center_y = its[i + 1].center_y
           /\ its[i].x_min <= its[i + 1].x_min

ScanStep == pc = "g_loop" /\ gi <= Len(items)

(* |cy - anchor| <= tol, by cross-multiplication of the two fractions.     *)
WithinTol(cy, anchor, tol) ==
    Abs(cy * anchor[2] - anchor[1]) * tol[2] <= tol[1] * anchor[2]

(* C1: the rows returned by group_rows partition its input: every          *)
(* detection occurs in the rows exactly as often as in the input, so none  *)
(* is dropped, duplicated or invented, and no row is empty.                *)
C1_Partition ==
    pc = "g_done" =>
        /\ Len(Flatten(rows)) = Len(items)
        /\ \A d \in Detections : Count(d, Flatten(rows)) = Count(d, items)
        /\ \A k \in 1..Len(rows) : rows[k] # <<>>

C1_Witness ==
    /\ pc = "g_done"
    /\ Len(rows) = 2
    /\ Len(items) = 3
    /\ \E i \in 1..2 : items[i] = items[i + 1]

(* C2: for an input in reading order the rows are in ascending order of    *)
(* their mean centerY, and the members of every row are in ascending       *)
(* order of xMin.                                                          *)
C2_Ordering ==
    (pc = "g_done" /\ IsReadingOrder(items)) =>
        /\ \A k \in 1..(Len(rows) - 1) :
               SumCY(rows[k]) * Len(rows[k + 1]) <= SumCY(rows[k + 1]) * Len(rows[k])
        /\ \A k \in 1..Len(rows) :
               \A j \in 1..(Len(rows[k]) - 1) :
                   rows[k][j].x_min <= rows[k][j + 1].x_min

C2_Witness ==
    /\ pc = "g_done"
    /\ IsReadingOrder(items)
    /\ Len(rows) = 2
    /\ \E k \in 1..2 :
           /\ Len(rows[k]) = 2
           /\ rows[k][1].x_min < rows[k][2].x_min
           /\ rows[k][1].center_y > rows[k][2].center_y

(* C3: in the scan a detection after the first joins the open row if and   *)
(* only if |centerY - anchor_y| <= y_tol, the boundary included; otherwise *)
(* it starts a new row.                                                    *)
C3_JoinIffWithinTol ==
    [][(ScanStep /\ last_y # None) =>
          LET it == items[gi] IN
            IF WithinTol(it.center_y, last_y, y_tol)
            THEN current' = Append(current, it) /\ rows' = rows
            ELSE current' = <<it>> /\ Len(rows') = Len(rows) + 1]_vars

C3_Witness ==
    /\ pc = "g_loop"
    /\ gi = 3
    /\ rows = <<>>
    /\ Len(current) = 2
    /\ Abs(items[2].center_y - items[1].center_y) * y_tol[2] = y_tol[1]

(* C4: the first detection sets the anchor to its centerY; a join sets it  *)
(* to the average of the previous anchor and the centerY of the joining    *)
(* detection; a detection that opens a new row resets it to its centerY,   *)
(* and the closed row is appended to the rows before the new one is open.  *)
C4_AnchorEvolution ==
    [][ScanStep =>
          LET it == items[gi] IN
            IF last_y = None
            THEN last_y' = <<it.center_y, 1>> /\ current' = <<it>>
            ELSE IF current' = Append(current, it)
            THEN /\ rows' = rows
                 /\ 2 * last_y'[1] * last_y[2] =
                        (last_y[1] + it.center_y * last_y[2]) * last_y'[2]
            ELSE /\ last_y' = <<it.center_y, 1>>
                 /\ current' = <<it>>
                 /\ Len(rows') = Len(rows) + 1
                 /\ SubSeq(rows', 1, Len(rows)) = rows
                 /\ Len(rows'[Len(rows')]) = Len(current)
                 /\ \A d \in Detections :
                        Count(d, rows'[Len(rows')]) = Count(d, current)]_vars

C4_Witness ==
    /\ pc = "g_loop"
    /\ Len(rows) = 1
    /\ Len(rows[1]) = 2
    /\ Len(current) = 1
    /\ last_y = <<current[1].center_y, 1>>
    /\ rows[1][1].center_y # rows[1][2].center_y

(* C5: the tolerance is max(6.0, median_h * 0.6) with median_h the median  *)
(* of the heights: the middle height of an odd number of detections, the   *)
(* mean of the two middle heights of an even number.                       *)
TrueMedian(hs) ==
    LET s == SortInts(hs)
        n == Len(s)
    IN IF n % 2 = 1 THEN Rat(s[(n + 1) \div 2], 1)
       ELSE Rat(s[n \div 2] + s[(n \div 2) + 1], 2)

C5_MedianTolerance ==
    pc = "g_loop" =>
        LET m == TrueMedian(Heights(items))
        IN y_tol = RMax(<<6, 1>>, Rat(m[1] * 6, m[2] * 10))

(***************************************************************************)
(* Properties of rows_to_csv.  The statements are written on the           *)
(* normalized texts of the input rows, with their own reading of a split:  *)
(* the least index at which a separator occurs.                            *)
(***************************************************************************)
NormTexts(i) == [j \in 1..Len(grouped[i]) |-> NormalizeCell(grouped[i][j].text)]

Classified == 1..Len(csv_rows)

Occurs(sep, t, i) ==
    i >= 1 /\ i + Len(sep) - 1 <= Len(t) /\ SubSeq(t, i, i + Len(sep) - 1) = sep

Has(sep, t) == \E i \in 1..Len(t) : Occurs(sep, t, i)

FirstIndex(sep, t) ==
    CHOOSE i \in 1..Len(t) :
        Occurs(sep, t, i) /\ \A j \in 1..(i - 1) : ~Occurs(sep, t, j)

Trimmed(t) ==
    LET solid == {i \in 1..Len(t) : t[i] # " "}
    IN IF solid = {} THEN <<>>
       ELSE SubSeq(t, CHOOSE i \in solid : \A j \in solid : i <= j,
                      CHOOSE i \in solid : \A j \in solid : i >= j)

SplitAt(sep, t) ==
    LET i == FirstIndex(sep, t)
    IN [ok |-> TRUE,
        key |-> Trimmed(SubSeq(t, 1, i - 1)),
        val |-> Trimmed(SubSeq(t, i + Len(sep), Len(t)))]

Dash == <<" ", "-", " ">>
EmDash == <<" ", "emdash", " ">>
EnDash == <<"endash">>

StatedSplit(t) ==
    IF Has(<<":">>, t) THEN SplitAt(<<":">>, t)
    ELSE IF Has(Dash, t) THEN SplitAt(Dash, t)
    ELSE IF Has(EmDash, t) THEN SplitAt(EmDash, t)
    ELSE IF Has(EnDash, t) THEN SplitAt(EnDash, t)
    ELSE [ok |-> FALSE, key |-> t, val |-> <<>>]

(* The text without the colons it ends with                                *)
WithoutTrailingColon(t) ==
    LET keep == {n \in 0..Len(t) :
                    /\ \A j \in (n + 1)..Len(t) : t[j] = ":"
                    /\ (n > 0 => t[n] # ":")}
    IN SubSeq(t, 1, CHOOSE n \in keep : TRUE)

RECURSIVE SpaceJoined(_)
SpaceJoined(cells) ==
    IF Len(cells) = 1 THEN cells[1]
    ELSE SpaceJoined(SubSeq(cells, 1, Len(cells) - 1)) \o <<" ">> \o cells[Len(cells)]

Rule1Holds(t) == Len(t) >= 3 /\ SumLen(t) <= 12 * Len(t)
Rule2Holds(t) == Len(t) = 1
Rule3Holds(t) == Len(t) >= 2 /\ t[1][Len(t[1])] = ":"

FirstRule(t) ==
    IF Rule1Holds(t) THEN 1
    ELSE IF Rule2Holds(t) THEN 2
    ELSE IF Rule3Holds(t) THEN 3
    ELSE 4

RECURSIVE MergeFrom(_, _)
MergeFrom(cs, i) ==
    IF i > Len(cs) THEN <<>>
    ELSE IF Len(cs[i]) = 1 /\ i < Len(cs) /\ Len(cs[i + 1]) >= 3
    THEN << <<SectionPrefix \o cs[i][1]>> \o cs[i + 1] >> \o MergeFrom(cs, i + 2)
    ELSE <<cs[i]>> \o MergeFrom(cs, i + 1)

(* C6: the rows returned are those of one forward pass over the classified *)
(* rows in which a row of exactly 1 cell followed by a row of at least 3   *)
(* cells is replaced, with that next row, by the one row "[Section] " +    *)
(* cell followed by the cells of the next row, the pass resuming after the *)
(* next row; every other row is emitted unchanged.                         *)
C6_SectionMerge ==
    pc = "c_done" => merged = MergeFrom(csv_rows, 1)

C6_Witness ==
    /\ pc = "c_done"
    /\ csv_rows = << <<TTitle>>, <<TQty, TTitle, TTitle>> >>
    /\ merged = << <<SectionPrefix \o TTitle, TQty, TTitle, TTitle>> >>

(* C7 as stated: a row of exactly 1 cell is split at the first ':' or else *)
(* at the first of " - ", " -- ", "-" (em and en dash) it contains; if a   *)
(* split succeeds and the value is non-empty or the key ends with ':' the  *)
(* CSV row is [key without trailing colon, value], otherwise it is the     *)
(* single cell.                                                            *)
Rule2Stated(t) ==
    LET sp == StatedSplit(t)
    IN IF sp.ok /\ (sp.val # <<>> \/ (sp.key # <<>> /\ sp.key[Len(sp.key)] = ":"))
       THEN <<WithoutTrailingColon(sp.key), sp.val>>
       ELSE <<t>>

C7_Rule2AsStated ==
    \A i \in Classified :
        Len(grouped[i]) = 1 => csv_rows[i] = Rule2Stated(NormTexts(i)[1])

(* C7 amended: the split is taken only if, besides, the key is non-empty.  *)
Rule2Amended(t) ==
    LET sp == StatedSplit(t)
    IN IF /\ sp.ok
          /\ sp.key # <<>>
          /\ (sp.val # <<>> \/ sp.key[Len(sp.key)] = ":")
       THEN <<WithoutTrailingColon(sp.key), sp.val>>
       ELSE <<t>>

C7_Rule2 ==
    \A i \in Classified :
        Len(grouped[i]) = 1 => csv_rows[i] = Rule2Amended(NormTexts(i)[1])

C7_Witness ==
    /\ Len(csv_rows) = 2
    /\ grouped[1] = <<Det(<<":", "a">>)>>
    /\ csv_rows[1] = << <<":", "a">> >>
    /\ grouped[2] = <<Det(<<"D", ":", " ", "1">>)>>
    /\ csv_rows[2] = << <<"D">>, <<"1">> >>

(* C8: a row of at least 3 cells whose mean normalized cell length is at   *)
(* most 12 is emitted with all its cells verbatim and in order, whether or *)
(* not a cell ends with or contains ':'.                                   *)
C8_Rule1 ==
    \A i \in Classified :
        Rule1Holds(NormTexts(i)) => csv_rows[i] = NormTexts(i)

C8_Witness ==
    \E i \in Classified :
        /\ grouped[i] = <<Det(TQty), Det(TAcme), Det(TAcme)>>
        /\ SumLen(NormTexts(i)) = 36
        /\ csv_rows[i] = <<TQty, NormalizeCell(TAcme), NormalizeCell(TAcme)>>

(* C9: a row of at least 2 cells that rule 1 does not match and whose      *)
(* first cell ends with ':' is emitted as two cells: the first cell        *)
(* without the colons it ends with, and the remaining cells joined by one  *)
(* space in their order.                                                   *)
C9_Rule3 ==
    \A i \in Classified :
        LET t == NormTexts(i) IN
          (Rule3Holds(t) /\ ~Rule1Holds(t)) =>
              csv_rows[i] = <<WithoutTrailingColon(t[1]), SpaceJoined(Tail(t))>>

C9_Witness ==
    \E i \in Classified :
        /\ grouped[i] = <<Det(TRef), Det(TAcme), Det(TItem)>>
        /\ csv_rows[i] = << <<"R", "e", "f">>,
                            NormalizeCell(TAcme) \o <<" ">> \o TItem >>

(* C10: every row is produced by exactly one rule, the first of rules 1,   *)
(* 2, 3, 4 whose condition holds; a row of at least 2 cells matched by     *)
(* neither rule 1 nor rule 3 is emitted by rule 4 with its cells verbatim. *)
C10_DecisionList ==
    /\ Len(rule) = Len(csv_rows)
    /\ \A i \in Classified :
           LET t == NormTexts(i) IN
             /\ rule[i] = FirstRule(t)
             /\ rule[i] \in {1, 4} => csv_rows[i] = t
             /\ rule[i] = 2 => csv_rows[i] = Rule2Amended(t[1])
             /\ rule[i] = 3 => Len(csv_rows[i]) = 2 /\ csv_rows[i] # t
             /\ (Len(t) >= 2 /\ ~Rule1Holds(t) /\ ~Rule3Holds(t)) =>
                    rule[i] = 4 /\ csv_rows[i] = t

C10_Witness ==
    /\ Len(csv_rows) = 2
    /\ rule = <<1, 2>>
    /\ Rule3Holds(NormTexts(1))
    /\ csv_rows[1] = NormTexts(1)

(***************************************************************************)
(* _normalize_cell applied to a string, and again to its result.           *)
(***************************************************************************)
NormChars == {"a", ":", " ", "tab", "nbsp"}

InitNorm ==
    /\ pc = "n_start"
    /\ text_in \in SeqsUpTo(NormChars, MaxStr)
    /\ norm_once = <<>>
    /\ norm_twice = <<>>
    /\ items = <<>>
    /\ y_tol = None
    /\ last_y = None
    /\ current = <<>>
    /\ rows = <<>>
    /\ gi = 0
    /\ grouped = <<>>
    /\ csv_rows = <<>>
    /\ rule = <<>>
    /\ ci = 0
    /\ merged = <<>>
    /\ skip_next = FALSE
    /\ mi = 0
    /\ PipeIdle
    /\ WorkersIdle

(* lines 117-122, on the input                                             *)
NormalizeOnce ==
    /\ pc = "n_start"
    /\ norm_once' = NormalizeCell(text_in)
    /\ pc' = "n_once"
    /\ UNCHANGED <<text_in, norm_twice>>
    /\ UNCHANGED <<groupVars, csvVars, pipeVars, wkVars>>

(* lines 117-122, on the result of the first call                          *)
NormalizeTwice ==
    /\ pc = "n_once"
    /\ norm_twice' = NormalizeCell(norm_once)
    /\ pc' = "n_twice"
    /\ UNCHANGED <<text_in, norm_once>>
    /\ UNCHANGED <<groupVars, csvVars, pipeVars, wkVars>>

NextNorm == NormalizeOnce \/ NormalizeTwice

SpecNorm == InitNorm /\ [][NextNorm]_vars

(***************************************************************************)
(* Properties of _normalize_cell.                                          *)
(***************************************************************************)
IsBlank(c) == c = " " \/ c = "tab" \/ c = "nbsp"

Solid(t) == SelectSeq(t, LAMBDA c : ~IsBlank(c))

(* The indices of the characters of t that are not white space, ascending  *)
RECURSIVE SolidIndices(_, _)
SolidIndices(t, i) ==
    IF i > Len(t) THEN <<>>
    ELSE IF IsBlank(t[i]) THEN SolidIndices(t, i + 1)
    ELSE <<i>> \o SolidIndices(t, i + 1)

(* The characters of t that are not white space, with one space wherever   *)
(* white space stood between two of them                                   *)
RECURSIVE SingleSpaced(_, _, _)
SingleSpaced(t, idx, k) ==
    IF k > Len(idx) THEN <<>>
    ELSE (IF k > 1 /\ idx[k] > idx[k - 1] + 1 THEN <<" ">> ELSE <<>>)
         \o <<t[idx[k]]>> \o SingleSpaced(t, idx, k + 1)

(* C11: the result of _normalize_cell has the non-white-space characters   *)
(* of the input in their order, one space for every run of white space     *)
(* between two of them, and nothing else: no space at either end, no two   *)
(* adjacent spaces, no non-breaking space.                                 *)
C11_Normalize ==
    pc = "n_once" =>
        /\ Solid(norm_once) = Solid(text_in)
        /\ norm_once = SingleSpaced(text_in, SolidIndices(text_in, 1), 1)
        /\ \A i \in 1..Len(norm_once) : norm_once[i] \notin {"nbsp", "tab"}
        /\ norm_once # <<>> => norm_once[1] # " " /\ norm_once[Len(norm_once)] # " "
        /\ \A i \in 1..(Len(norm_once) - 1) :
               ~(norm_once[i] = " " /\ norm_once[i + 1] = " ")

C11_Witness ==
    /\ pc = "n_once"
    /\ text_in = <<"nbsp", "a", " ", "tab", ":">>
    /\ norm_once = <<"a", " ", ":">>

(* C12: normalizing a normalized string returns it unchanged.              *)
C12_Idempotent ==
    pc = "n_twice" => norm_twice = norm_once

C12_Witness ==
    /\ pc = "n_twice"
    /\ text_in = <<"a", " ", "nbsp", " ", "a">>
    /\ norm_once # text_in
    /\ norm_twice = <<"a", " ", "a">>

(* C13: every cell of every row returned by rows_to_csv is a normalized    *)
(* string: _normalize_cell returns it unchanged.                           *)
C13_CellsNormalized ==
    pc = "c_done" =>
        \A i \in 1..Len(merged) :
            \A j \in 1..Len(merged[i]) :
                NormalizeCell(merged[i][j]) = merged[i][j]

(***************************************************************************)
(* read_layout, lines 61-86.  A box is four points <<x, y>> in the order   *)
(* top-left, top-right, bottom-right, bottom-left.  The boxes of the model *)
(* have coordinate sums that the divisions by 4.0 and 2.0 divide exactly.  *)
(***************************************************************************)
RECURSIVE SumSeq(_)
SumSeq(s) == IF s = <<>> THEN 0 ELSE Head(s) + SumSeq(Tail(s))

Xs(box) == [i \in 1..4 |-> box[i][1]]
Ys(box) == [i \in 1..4 |-> box[i][2]]

(* lines 51-54                                                             *)
BoxCenter(box) == <<SumSeq(Xs(box)) \div 4, SumSeq(Ys(box)) \div 4>>

(* lines 57-59                                                             *)
BoxHeight(box) ==
    (Abs(box[1][2] - box[4][2]) + Abs(box[2][2] - box[3][2])) \div 2

(* line 75                                                                 *)
BoxXMin(box) == SortInts(Xs(box))[1]

(* line 81                                                                 *)
ClampHeight(h) == MaxOf(h, 1)

(* line 71                                                                 *)
SurvivesAlways(r) == TRUE

Survives(r) == Strip(r.text) # <<>>

(* lines 73-83                                                             *)
MakeItem(r) ==
    [text |-> Strip(r.text),
     box |-> r.box,
     center_y |-> BoxCenter(r.box)[2],
     center_x |-> BoxCenter(r.box)[1],
     height |-> ClampHeight(BoxHeight(r.box)),
     x_min |-> BoxXMin(r.box)]

(* line 85: the key of the sort and the stable sort                        *)
KeyLeqCenterOnly(a, b) == a.center_y <= b.center_y

KeyLeq(a, b) ==
    \/ a.center_y < b.center_y
    \/ (a.center_y = b.center_y /\ a.x_min <= b.x_min)

RECURSIVE InsertByKey(_, _)
InsertByKey(s, it) ==
    IF s = <<>> THEN <<it>>
    ELSE IF ~KeyLeq(Head(s), it) THEN <<it>> \o s
    ELSE <<Head(s)>> \o InsertByKey(Tail(s), it)

RECURSIVE SortItems(_)
SortItems(s) ==
    IF s = <<>> THEN <<>>
    ELSE InsertByKey(SortItems(SubSeq(s, 1, Len(s) - 1)), s[Len(s)])

(* lines 69-83: the loop over the results                                  *)
RECURSIVE CollectItems(_)
CollectItems(res) ==
    IF res = <<>> THEN <<>>
    ELSE (IF Survives(Head(res)) THEN <<MakeItem(Head(res))>> ELSE <<>>)
         \o CollectItems(Tail(res))

ReadLayoutOf(res) == SortItems(CollectItems(res))

(***************************************************************************)
(* csv.writer(sys.stdout, lineterminator='\n').writerow, lines 200-202:    *)
(* the excel dialect quotes a field that holds the delimiter, the quote    *)
(* character or a line break, doubling the quotes in it, and writes a row  *)
(* of one empty field as "".                                               *)
(***************************************************************************)
NeedsQuote(f) == \E i \in 1..Len(f) : f[i] \in {",", "\"", "\n", "\r"}

RECURSIVE DoubleQuotes(_)
DoubleQuotes(f) ==
    IF f = <<>> THEN <<>>
    ELSE (IF Head(f) = "\"" THEN <<"\"", "\"">> ELSE <<Head(f)>>)
         \o DoubleQuotes(Tail(f))

WriteFieldNoDoubling(f) ==
    IF NeedsQuote(f) THEN <<"\"">> \o f \o <<"\"">> ELSE f

WriteField(f) ==
    IF NeedsQuote(f) THEN <<"\"">> \o DoubleQuotes(f) \o <<"\"">> ELSE f

WriteRowText(r) ==
    IF Len(r) = 1 /\ r[1] = <<>> THEN <<"\"", "\"", "\n">>
    ELSE Join(<<",">>, [j \in 1..Len(r) |-> WriteField(r[j])]) \o <<"\n">>

(***************************************************************************)
(* The run of main: extract_csv (preprocess, read_layout, group_rows,      *)
(* rows_to_csv) and the writing of the rows.  Of preprocess only the       *)
(* decoding of the image is modelled; readtext returns any sequence of at  *)
(* most MaxOcr triples, or fails.                                          *)
(***************************************************************************)
Rect(x, y, w, h) == << <<x, y>>, <<x + w, y>>, <<x + w, y + h>>, <<x, y + h>> >>

OcrBoxes == {Rect(0, 0, 8, 10), Rect(20, 5, 8, 0), Rect(0, 40, 8, 20)}

OcrTexts == { <<" ">>, <<":">>, <<"a", ",", "\"", "b">> }

OcrTriples == [box : OcrBoxes, text : OcrTexts, conf : {1}]

InitPipe ==
    /\ pc = "main"
    /\ image_ok \in BOOLEAN
    /\ results = <<>>
    /\ ocr_calls = 0
    /\ error = "none"
    /\ out_rows = <<>>
    /\ stdout = <<>>
    /\ wi = 0
    /\ items = <<>>
    /\ y_tol = None
    /\ last_y = None
    /\ current = <<>>
    /\ rows = <<>>
    /\ gi = 0
    /\ grouped = <<>>
    /\ csv_rows = <<>>
    /\ rule = <<>>
    /\ ci = 0
    /\ merged = <<>>
    /\ skip_next = FALSE
    /\ mi = 0
    /\ NormIdle
    /\ WorkersIdle

(* line 32: cv2.imread returned None                                       *)
ImageMissingNever(ok) == FALSE

ImageMissing(ok) == ~ok

(* lines 197, 185, 30-47                                                   *)
Preprocess ==
    /\ pc = "main"
    /\ IF ImageMissing(image_ok)
       THEN pc' = "failed" /\ error' = "FileNotFoundError"
       ELSE pc' = "read_layout" /\ error' = error
    /\ UNCHANGED <<image_ok, results, ocr_calls, out_rows, stdout, wi>>
    /\ UNCHANGED <<groupVars, csvVars, normVars, wkVars>>

(* Where the run goes when readtext raises: nothing catches it.            *)
AfterOcrFailureRetry == "read_layout"

AfterOcrFailure == "failed"

(* lines 186, 61-86                                                        *)
ReadLayout ==
    /\ pc = "read_layout"
    /\ ocr_calls' = ocr_calls + 1
    /\ \/ /\ error' = "OcrFailure"
          /\ pc' = AfterOcrFailure
          /\ UNCHANGED <<results, items>>
       \/ \E res \in SeqsUpTo(OcrTriples, MaxOcr) :
              /\ results' = res
              /\ items' = ReadLayoutOf(res)
              /\ pc' = "g_start"
              /\ error' = error
    /\ UNCHANGED <<image_ok, out_rows, stdout, wi>>
    /\ UNCHANGED <<y_tol, last_y, current, rows, gi>>
    /\ UNCHANGED <<csvVars, normVars, wkVars>>

(* lines 187-188: the rows of group_rows are passed to rows_to_csv         *)
ToCsv ==
    /\ pc = "g_done"
    /\ grouped' = rows
    /\ csv_rows' = <<>>
    /\ rule' = <<>>
    /\ ci' = 1
    /\ pc' = "c_classify"
    /\ UNCHANGED <<merged, skip_next, mi>>
    /\ UNCHANGED <<groupVars, pipeVars, normVars, wkVars>>

(* lines 188, 197, 200: extract_csv returns, the writer is made            *)
ReturnRows ==
    /\ pc = "c_done"
    /\ out_rows' = merged
    /\ wi' = 1
    /\ pc' = "write"
    /\ UNCHANGED <<image_ok, results, ocr_calls, error, stdout>>
    /\ UNCHANGED <<groupVars, csvVars, normVars, wkVars>>

(* lines 201-202: one iteration of the writing loop                        *)
WriteRow ==
    /\ pc = "write"
    /\ wi <= Len(out_rows)
    /\ stdout' = stdout \o WriteRowText(out_rows[wi])
    /\ wi' = wi + 1
    /\ UNCHANGED <<pc, image_ok, results, ocr_calls, error, out_rows>>
    /\ UNCHANGED <<groupVars, csvVars, normVars, wkVars>>

(* line 202: the loop ends and main returns                                *)
Exit ==
    /\ pc = "write"
    /\ wi > Len(out_rows)
    /\ pc' = "exit"
    /\ UNCHANGED pipeVars
    /\ UNCHANGED <<groupVars, csvVars, normVars, wkVars>>

NextPipe ==
    \/ Preprocess
    \/ ReadLayout
    \/ GroupStart
    \/ GroupScan
    \/ GroupFinish
    \/ ToCsv
    \/ CsvClassify
    \/ CsvMergeStart
    \/ CsvMerge
    \/ CsvReturn
    \/ ReturnRows
    \/ WriteRow
    \/ Exit

SpecPipe == InitPipe /\ [][NextPipe]_vars

(***************************************************************************)
(* Properties of the run of main.                                          *)
(***************************************************************************)
TextIsBlank(t) == \A i \in 1..Len(t) : IsBlank(t[i])

OcrReturned == ocr_calls >= 1 /\ error # "OcrFailure"

Kept == {i \in 1..Len(results) : ~TextIsBlank(results[i].text)}

(* C14: when the OCR call returns no detection, or only detections whose   *)
(* trimmed text is empty, group_rows and rows_to_csv return no row, the    *)
(* run goes on to its normal end without an error, and nothing is written. *)
C14_EmptyInput ==
    (OcrReturned /\ Kept = {}) =>
        /\ error = "none"
        /\ pc # "failed"
        /\ items = <<>>
        /\ rows = <<>>
        /\ csv_rows = <<>>
        /\ merged = <<>>
        /\ out_rows = <<>>
        /\ stdout = <<>>
        /\ pc # "exit" => ENABLED NextPipe

C14_Witness ==
    /\ pc = "exit"
    /\ OcrReturned
    /\ Len(results) = 2
    /\ Kept = {}
    /\ stdout = <<>>

(* C15: when the image cannot be read the run fails in preprocess with the *)
(* image-load error: readtext is never invoked, no later stage runs and    *)
(* nothing is written.                                                     *)
C15_ImageLoadError ==
    ~image_ok =>
        /\ pc \in {"main", "failed"}
        /\ pc = "failed" => error = "FileNotFoundError"
        /\ ocr_calls = 0
        /\ items = <<>> /\ gi = 0 /\ ci = 0 /\ mi = 0
        /\ out_rows = <<>>
        /\ stdout = <<>>
        /\ pc = "failed" => ~ENABLED NextPipe

C15_Witness ==
    /\ ~image_ok
    /\ pc = "failed"
    /\ error = "FileNotFoundError"

(* C16: read_layout returns one detection for each OCR triple whose        *)
(* trimmed text is not empty and no other, each with a height of at least  *)
(* 1, in ascending order of (centerY, xMin).                               *)
C16_ReadLayout ==
    OcrReturned =>
        /\ Len(items) = Cardinality(Kept)
        /\ \A b \in OcrBoxes : \A t \in OcrTexts :
               Cardinality({i \in 1..Len(items) :
                               items[i].box = b /\ items[i].text = Trimmed(t)})
               = Cardinality({i \in Kept :
                               results[i].box = b /\ results[i].text = t})
        /\ \A i \in 1..Len(items) :
               /\ items[i].height >= 1
               /\ 2 * items[i].height >=
                      Abs(items[i].box[1][2] - items[i].box[4][2])
                      + Abs(items[i].box[2][2] - items[i].box[3][2])
               /\ 4 * items[i].center_y =
                      items[i].box[1][2] + items[i].box[2][2]
                      + items[i].box[3][2] + items[i].box[4][2]
               /\ \A k \in 1..4 : items[i].x_min <= items[i].box[k][1]
        /\ \A i \in 1..(Len(items) - 1) :
               \/ items[i].center_y < items[i + 1].center_y
               \/ /\ items[i].center_y = items[i + 1].center_y
                  /\ items[i].x_min <= items[i + 1].x_min

C16_Witness ==
    /\ pc = "g_start"
    /\ Len(results) = 3
    /\ Len(items) = 2
    /\ items[1].height = 10
    /\ items[2].height = 1
    /\ items[1].center_y = items[2].center_y
    /\ results[1].box = items[2].box
    /\ TextIsBlank(results[2].text)

(* The records of a CSV text by the standard rules: fields separated by    *)
(* commas, records ended by a line break, a field in double quotes holding *)
(* commas, line breaks and doubled quotes.  mode is "start" at the start   *)
(* of a field, "plain" in an unquoted field, "quoted" in a quoted field    *)
(* and "closing" after a quote met in a quoted field.                      *)
RECURSIVE ParseCsvFrom(_, _, _, _, _, _)
ParseCsvFrom(t, i, mode, field, row, recs) ==
    IF i > Len(t)
    THEN IF mode = "start" /\ row = <<>> THEN recs
         ELSE Append(recs, Append(row, field))
    ELSE LET c == t[i] IN
      IF mode = "quoted"
      THEN IF c = "\"" THEN ParseCsvFrom(t, i + 1, "closing", field, row, recs)
           ELSE ParseCsvFrom(t, i + 1, "quoted", Append(field, c), row, recs)
      ELSE IF mode = "closing" /\ c = "\""
      THEN ParseCsvFrom(t, i + 1, "quoted", Append(field, c), row, recs)
      ELSE IF c = ","
      THEN ParseCsvFrom(t, i + 1, "start", <<>>, Append(row, field), recs)
      ELSE IF c = "\n"
      THEN IF mode = "start" /\ row = <<>>
           THEN ParseCsvFrom(t, i + 1, "start", <<>>, <<>>, Append(recs, <<>>))
           ELSE ParseCsvFrom(t, i + 1, "start", <<>>, <<>>,
                             Append(recs, Append(row, field)))
      ELSE IF mode = "start" /\ c = "\""
      THEN ParseCsvFrom(t, i + 1, "quoted", <<>>, row, recs)
      ELSE ParseCsvFrom(t, i + 1, "plain", Append(field, c), row, recs)

ParseCsv(t) == ParseCsvFrom(t, 1, "start", <<>>, <<>>, <<>>)

(* C17: the text written to standard output, parsed by the standard CSV    *)
(* rules, gives back the rows written so far, cell for cell; at the end    *)
(* of the run these are all the rows returned by rows_to_csv.              *)
C17_RoundTrip ==
    /\ pc = "write" => ParseCsv(stdout) = SubSeq(out_rows, 1, wi - 1)
    /\ pc = "exit" => ParseCsv(stdout) = out_rows /\ out_rows = merged

C17_Witness ==
    /\ pc = "exit"
    /\ Len(out_rows) = 2
    /\ out_rows[1] = << <<>>, <<"a", ",", "\"", "b">> >>
    /\ out_rows[2] = << <<"a", ",", "\"", "b">> >>

(* C19: readtext is invoked at most once in a run; when it fails the run   *)
(* fails at once, group_rows and rows_to_csv never run and nothing is      *)
(* written; rows are written only after extract_csv has returned.          *)
C19_OcrFailureFatal ==
    /\ ocr_calls <= 1
    /\ error = "OcrFailure" =>
           /\ pc = "failed"
           /\ ~ENABLED NextPipe
           /\ y_tol = None /\ rows = <<>> /\ current = <<>> /\ gi = 0
           /\ csv_rows = <<>> /\ merged = <<>> /\ ci = 0 /\ mi = 0
           /\ out_rows = <<>>
           /\ stdout = <<>>
    /\ stdout # <<>> => pc \in {"write", "exit"}

C19_Witness ==
    /\ error = "OcrFailure"
    /\ pc = "failed"
    /\ ocr_calls = 1
    /\ image_ok

(***************************************************************************)
(* group_rows and rows_to_csv as functions of their argument: the loops of *)
(* GroupScan, CsvClassify and CsvMerge run to their end.                   *)
(***************************************************************************)
RECURSIVE GroupScanFrom(_, _, _, _, _, _)
GroupScanFrom(its, tol, i, rs, cur, anchor) ==
    IF i > Len(its)
    THEN IF cur # <<>> THEN CloseRow(rs, cur) ELSE rs
    ELSE LET it == its[i] IN
      IF anchor = None
      THEN GroupScanFrom(its, tol, i + 1, rs, <<it>>, <<it.center_y, 1>>)
      ELSE IF Joins(it.center_y, anchor, tol)
      THEN GroupScanFrom(its, tol, i + 1, rs, Append(cur, it),
                         Smoothed(anchor, it.center_y))
      ELSE GroupScanFrom(its, tol, i + 1, CloseRow(rs, cur), <<it>>,
                         <<it.center_y, 1>>)

GroupRowsOf(its) ==
    IF its = <<>> THEN <<>>
    ELSE GroupScanFrom(its, YTol(its), 1, <<>>, <<>>, None)

ClassifyAll(rs) == [i \in 1..Len(rs) |-> ClassifyRow(Texts(rs[i])).row]

RECURSIVE MergeScanFrom(_, _, _, _)
MergeScanFrom(cs, i, skip, acc) ==
    IF i > Len(cs) THEN acc
    ELSE IF skip THEN MergeScanFrom(cs, i + 1, FALSE, acc)
    ELSE IF ShouldMerge(cs, i)
    THEN MergeScanFrom(cs, i + 1, SkipAfterMerge(cs, i),
                       Append(acc, MergedRow(cs, i)))
    ELSE MergeScanFrom(cs, i + 1, skip, Append(acc, cs[i]))

RowsToCsvOf(rs) == MergeScanFrom(ClassifyAll(rs), 1, FALSE, <<>>)

(***************************************************************************)
(* Two workers, each with its own OcrCsvExtractor, run extract_csv on      *)
(* their own image; a step is one stage of one worker.  The lists a stage  *)
(* builds are locals of its call, kept here in the frame of the worker;    *)
(* log records the order in which the workers stepped.                     *)
(***************************************************************************)
Workers == {1, 2}

(* The frame that holds the locals of worker w                             *)
FrameOfShared(w) == 1

FrameOf(w) == w

WorkerTriples ==
    { [box |-> Rect(0, 0, 8, 10), text |-> <<":">>, conf |-> 1],
      [box |-> Rect(20, 5, 8, 0), text |-> <<"a", ",", "\"", "b">>, conf |-> 1],
      [box |-> Rect(0, 40, 8, 20), text |-> <<"k", ":", "v">>, conf |-> 1] }

WorkerInputs == SeqsUpTo(WorkerTriples, MaxWorkerOcr)

EmptyFrame == [res |-> <<>>, items |-> <<>>, grouped |-> <<>>]

InitWorkers ==
    /\ pc = "workers"
    /\ \E in \in [Workers -> WorkerInputs] :
           wk = [stage |-> [w \in Workers |-> "read"],
                 in |-> in,
                 frame |-> [f \in Workers |-> EmptyFrame],
                 out |-> [w \in Workers |-> <<>>],
                 log |-> <<>>]
    /\ items = <<>>
    /\ y_tol = None
    /\ last_y = None
    /\ current = <<>>
    /\ rows = <<>>
    /\ gi = 0
    /\ grouped = <<>>
    /\ csv_rows = <<>>
    /\ rule = <<>>
    /\ ci = 0
    /\ merged = <<>>
    /\ skip_next = FALSE
    /\ mi = 0
    /\ NormIdle
    /\ PipeIdle

WorkerStep(w, stage, frame, out) ==
    /\ wk' = [wk EXCEPT !.stage[w] = stage,
                        !.frame[FrameOf(w)] = frame,
                        !.out[w] = out,
                        !.log = Append(@, w)]
    /\ UNCHANGED <<pc, groupVars, csvVars, normVars, pipeVars>>

(* lines 186, 61-86: read_layout on the results of the worker's OCR call   *)
WorkerRead(w) ==
    /\ wk.stage[w] = "read"
    /\ LET f == wk.frame[FrameOf(w)]
       IN WorkerStep(w, "group",
                     [f EXCEPT !.res = wk.in[w], !.items = ReadLayoutOf(wk.in[w])],
                     wk.out[w])

(* lines 187, 89-114                                                       *)
WorkerGroup(w) ==
    /\ wk.stage[w] = "group"
    /\ LET f == wk.frame[FrameOf(w)]
       IN WorkerStep(w, "csv", [f EXCEPT !.grouped = GroupRowsOf(f.items)],
                     wk.out[w])

(* lines 188, 138-181                                                      *)
WorkerCsv(w) ==
    /\ wk.stage[w] = "csv"
    /\ LET f == wk.frame[FrameOf(w)]
       IN WorkerStep(w, "done", f, RowsToCsvOf(f.grouped))

NextWorkers ==
    \E w \in Workers : WorkerRead(w) \/ WorkerGroup(w) \/ WorkerCsv(w)

SpecWorkers == InitWorkers /\ [][NextWorkers]_vars

(***************************************************************************)
(* Properties of the stages run by two workers.                            *)
(***************************************************************************)
Alone(res) == RowsToCsvOf(GroupRowsOf(ReadLayoutOf(res)))

StageStep(w, from) == wk.stage[w] = from /\ wk'.stage[w] # from

(* C18: a stage leaves the sequence passed to it unchanged, and under      *)
(* every interleaving of the stages of two workers with their own          *)
(* extractors each worker returns the rows it returns when run alone.      *)
C18_Independent ==
    /\ [](\A w \in Workers :
             wk.stage[w] = "done" => wk.out[w] = Alone(wk.in[w]))
    /\ [][\A w \in Workers :
             /\ wk'.in[w] = wk.in[w]
             /\ StageStep(w, "read") =>
                    wk'.frame[w].res = wk.in[w]
             /\ StageStep(w, "group") =>
                    /\ wk'.frame[w].res = wk.frame[w].res
                    /\ wk'.frame[w].items = wk.frame[w].items
             /\ StageStep(w, "csv") =>
                    /\ wk'.frame[w].items = wk.frame[w].items
                    /\ wk'.frame[w].grouped = wk.frame[w].grouped]_vars

C18_Witness ==
    /\ wk.log = <<1, 2, 2, 1, 2, 1>>
    /\ wk.stage = [w \in Workers |-> "done"]
    /\ wk.out[1] # <<>>
    /\ wk.out[2] # <<>>
    /\ wk.out[1] # wk.out[2]

(***************************************************************************)
(* group_rows on an input in ascending order of centerY.                   *)
(***************************************************************************)
CYAscending(its) ==
    \A i \in 1..(Len(its) - 1) : its[i].center_y <= its[i + 1].center_y

RECURSIVE RowStart(_, _)
RowStart(rs, k) == IF k = 1 THEN 1 ELSE RowStart(rs, k - 1) + Len(rs[k - 1])

RunOf(rs, k) == SubSeq(items, RowStart(rs, k), RowStart(rs, k) + Len(rs[k]) - 1)

(* C20: for an input in ascending order of centerY the anchor is at most   *)
(* the centerY of the detection examined, at every step of the scan; the   *)
(* rows returned are contiguous runs of the input, and two detections next *)
(* to each other in one run differ in centerY by at most y_tol.            *)
C20_SortedScan ==
    CYAscending(items) =>
        /\ (ScanStep /\ last_y # None) =>
               last_y[1] <= items[gi].center_y * last_y[2]
        /\ pc = "g_done" =>
               \A k \in 1..Len(rows) :
                   /\ RowStart(rows, k) + Len(rows[k]) - 1 <= Len(items)
                   /\ \A d \in Detections :
                          Count(d, rows[k]) = Count(d, RunOf(rows, k))
                   /\ \A j \in 1..(Len(rows[k]) - 1) :
                          (RunOf(rows, k)[j + 1].center_y - RunOf(rows, k)[j].center_y)
                              * y_tol[2] <= y_tol[1]

C20_Witness ==
    /\ pc = "g_done"
    /\ CYAscending(items)
    /\ Len(rows) = 2
    /\ Len(rows[1]) = 2
    /\ rows[1][1].center_y > rows[1][2].center_y
    /\ (items[2].center_y - items[1].center_y) * y_tol[2] = y_tol[1]

(***************************************************************************)
(* Rows of one cell.  The detections of a row come from read_layout, which *)
(* keeps no detection whose text is blank (lines 71-72).                   *)
(***************************************************************************)
SingleCells == {i \in Classified : Len(grouped[i]) = 1}

(* C21: a row of one cell, of non-blank text, yields either two cells, a   *)
(* key and a value that are both non-empty with no ':' in the key, or the  *)
(* one normalized cell unchanged; in both cases no cell of the CSV row is  *)
(* empty.                                                                  *)
C21_SingleCell ==
    \A i \in SingleCells :
        ~TextIsBlank(grouped[i][1].text) =>
            /\ rule[i] = 2
            /\ Len(csv_rows[i]) \in {1, 2}
            /\ Len(csv_rows[i]) = 2 =>
                   /\ csv_rows[i][1] # <<>>
                   /\ csv_rows[i][2] # <<>>
                   /\ ~Has(<<":">>, csv_rows[i][1])
            /\ Len(csv_rows[i]) = 1 => csv_rows[i] = <<NormTexts(i)[1]>>
            /\ \A j \in 1..Len(csv_rows[i]) : csv_rows[i][j] # <<>>

C21_Witness ==
    /\ pc = "c_done"
    /\ Len(grouped) = 2
    /\ grouped[1][1].text = <<"a", " ", "-", " ", "b", ":", "c">>
    /\ grouped[2][1].text = <<"k", ":">>
    /\ csv_rows = << << <<"a", " ", "-", " ", "b">>, <<"c">> >>, << <<"k", ":">> >> >>

(***************************************************************************)
(* The section merge as a map from the classified rows to the rows         *)
(* returned.  M is the set of the indices of the titles that are merged;   *)
(* the row after a merged title goes to the same returned row.             *)
(***************************************************************************)
MergeSets(n) == {M \in SUBSET (1..(n - 1)) : \A i \in M : (i + 1) \notin M}

OutIndex(M, i) == i - Cardinality({m \in M : m < i})

Prefixed(row) == <<SectionPrefix \o row[1]>> \o Tail(row)

Marked(cs, M) == [i \in 1..Len(cs) |-> IF i \in M THEN Prefixed(cs[i]) ELSE cs[i]]

Conserves(cs, out, M) ==
    /\ Len(out) = Len(cs) - Cardinality(M)
    /\ Flatten(out) = Flatten(Marked(cs, M))
    /\ \A i \in 1..Len(cs) :
           /\ i \in M =>
                  /\ out[OutIndex(M, i)] = Prefixed(cs[i]) \o cs[i + 1]
                  /\ Len(out[OutIndex(M, i)]) >= 4
           /\ (i \notin M /\ (i - 1) \notin M) => out[OutIndex(M, i)] = cs[i]

(* C22: the rows returned are the classified rows in their order, each     *)
(* classified row going to exactly one returned row, alone or as the       *)
(* second part of a merge; the cells returned are, in order, the cells     *)
(* classified, "[Section] " put before each merged title; there are as     *)
(* many rows fewer as there are merges; a merged row has at least 4 cells. *)
C22_MergeConserves ==
    pc = "c_done" =>
        \E M \in MergeSets(Len(csv_rows)) : Conserves(csv_rows, merged, M)

C22_Witness ==
    /\ pc = "c_done"
    /\ Len(csv_rows) = 4
    /\ Len(merged) = 3
    /\ Conserves(csv_rows, merged, {2})
    /\ Len(csv_rows[1]) = 1
    /\ Len(csv_rows[4]) = 2

====
